---- MODULE Spec2Model ----
(***************************************************************************)
(* vimvar: reading the value of a vim/neovim variable by running the       *)
(* editor in batch/headless mode and decoding the JSON it prints.          *)
(*                                                                         *)
(* Text (captured output) is a sequence of one-character strings, a path   *)
(* is a sequence of path components (the empty path is << >>).             *)
(***************************************************************************)
EXTENDS Integers, Sequences, FiniteSets, TLC

VARIABLES pc, call, ret

vars == <<pc, call, ret>>

(***************************************************************************)
(* Bounds of the model                                                     *)
(***************************************************************************)
\* longest run of whitespace put around a captured text
MaxPad == 1
\* exit codes of the editor process range over 0..MaxExitCode
MaxExitCode == 2

(***************************************************************************)
(* enum Cmd, enum Scope                                                    *)
(***************************************************************************)
Cmds == {"Neovim", "Vim"}

CmdAsStr(cmd) == IF cmd = "Vim" THEN "vim" ELSE "nvim"

Scopes == {"Nothing", "Buffer", "Window", "Tabpage", "Global", "Local",
           "Script", "FunctionArg", "Vim"}

\* a slip: the prefix of Local repeated for Script
ScopeAsStrScriptAsLocal(scope) ==
    CASE scope = "Nothing"     -> ""
      [] scope = "Buffer"      -> "b:"
      [] scope = "Window"      -> "w:"
      [] scope = "Tabpage"     -> "t:"
      [] scope = "Global"      -> "g:"
      [] scope = "Local"       -> "l:"
      [] scope = "Script"      -> "l:"
      [] scope = "FunctionArg" -> "a:"
      [] scope = "Vim"         -> "v:"

ScopeAsStr(scope) ==
    CASE scope = "Nothing"     -> ""
      [] scope = "Buffer"      -> "b:"
      [] scope = "Window"      -> "w:"
      [] scope = "Tabpage"     -> "t:"
      [] scope = "Global"      -> "g:"
      [] scope = "Local"       -> "l:"
      [] scope = "Script"      -> "s:"
      [] scope = "FunctionArg" -> "a:"
      [] scope = "Vim"         -> "v:"

ScopeDefault == "Global"

Names == {"my_var"}

\* VimVar::new
VimVarNew(cmd, scope, name) == [cmd |-> cmd, scope |-> scope, name |-> name]

VimVars == {VimVarNew(c, s, n) : c \in Cmds, s \in Scopes, n \in Names}

(***************************************************************************)
(* Text helpers: str::trim                                                 *)
(***************************************************************************)
Whitespace == {" ", "\n", "\t", "\r"}

RECURSIVE TrimStart(_)
TrimStart(s) ==
    IF s # <<>> /\ Head(s) \in Whitespace THEN TrimStart(Tail(s)) ELSE s

RECURSIVE TrimEnd(_)
TrimEnd(s) ==
    IF s # <<>> /\ s[Len(s)] \in Whitespace
    THEN TrimEnd(SubSeq(s, 1, Len(s) - 1))
    ELSE s

Trim(s) == TrimEnd(TrimStart(s))

(***************************************************************************)
(* serde_json::Value and serde_json::from_str on the JSON texts the model  *)
(* feeds it: literals, numbers without exponent, strings without escapes,  *)
(* the empty array and the empty object.                                   *)
(***************************************************************************)
JNull      == [t |-> "null",   n |-> 0, s |-> <<>>]
JBool(b)   == [t |-> "bool",   n |-> IF b THEN 1 ELSE 0, s |-> <<>>]
\* Number(PosInt) / Number(NegInt)
JInt(n)    == [t |-> "int",    n |-> n, s |-> <<>>]
\* Number(Float): integer part (sign kept apart in s) and fraction digits
JFloat(n, f) == [t |-> "float", n |-> n, s |-> f]
JString(s) == [t |-> "string", n |-> 0, s |-> s]
JArray     == [t |-> "array",  n |-> 0, s |-> <<>>]
JObject    == [t |-> "object", n |-> 0, s |-> <<>>]

\* serde_json::json!(0)
JsonZero == JInt(0)

Digits == {"0", "1", "2", "3", "4", "5", "6", "7", "8", "9"}

DigitVal(c) ==
    CASE c = "0" -> 0 [] c = "1" -> 1 [] c = "2" -> 2 [] c = "3" -> 3
      [] c = "4" -> 4 [] c = "5" -> 5 [] c = "6" -> 6 [] c = "7" -> 7
      [] c = "8" -> 8 [] c = "9" -> 9

RECURSIVE DigitsVal(_)
DigitsVal(s) ==
    IF s = <<>> THEN 0
    ELSE 10 * DigitsVal(SubSeq(s, 1, Len(s) - 1)) + DigitVal(s[Len(s)])

AllDigits(s) == s # <<>> /\ \A i \in 1..Len(s) : s[i] \in Digits

\* JSON integer part: "0" or a digit string without leading zero
IsIntPart(s) == AllDigits(s) /\ (Len(s) = 1 \/ s[1] # "0")

DotAt(s) == IF \E i \in 1..Len(s) : s[i] = "."
            THEN CHOOSE i \in 1..Len(s) : s[i] = "." /\ \A j \in 1..(i - 1) : s[j] # "."
            ELSE 0

ParseErr(what) == [ok |-> FALSE, value |-> JNull, err |-> what]
ParseOk(v)     == [ok |-> TRUE,  value |-> v,     err |-> ""]

\* an unsigned number literal; neg says a '-' came before it
ParseNumber(s, neg) ==
    LET d == DotAt(s) IN
    IF d = 0
    THEN IF ~IsIntPart(s) THEN ParseErr("invalid number")
         ELSE IF neg /\ DigitsVal(s) = 0
              THEN ParseOk(JFloat(0, <<"-", "0">>))     \* "-0" is the float -0.0
              ELSE ParseOk(JInt(IF neg THEN 0 - DigitsVal(s) ELSE DigitsVal(s)))
    ELSE LET ip == SubSeq(s, 1, d - 1)
             fp == SubSeq(s, d + 1, Len(s))
         IN  IF IsIntPart(ip) /\ AllDigits(fp)
             THEN ParseOk(JFloat(DigitsVal(ip), IF neg THEN <<"-">> \o fp ELSE fp))
             ELSE ParseErr("invalid number")

\* serde_json::from_str::<Value>
FromStr(s) ==
    CASE s = <<>>                         -> ParseErr("EOF while parsing a value")
      [] s = <<"n", "u", "l", "l">>       -> ParseOk(JNull)
      [] s = <<"t", "r", "u", "e">>       -> ParseOk(JBool(TRUE))
      [] s = <<"f", "a", "l", "s", "e">>  -> ParseOk(JBool(FALSE))
      [] s = <<"[", "]">>                 -> ParseOk(JArray)
      [] s = <<"{", "}">>                 -> ParseOk(JObject)
      [] OTHER ->
           IF Len(s) >= 2 /\ s[1] = "\"" /\ s[Len(s)] = "\""
              /\ \A i \in 2..(Len(s) - 1) : s[i] \notin {"\"", "\\"}
           THEN ParseOk(JString(SubSeq(s, 2, Len(s) - 1)))
           ELSE IF s[1] = "-" THEN ParseNumber(Tail(s), TRUE)
           ELSE IF s[1] \in Digits THEN ParseNumber(s, FALSE)
           ELSE ParseErr("expected value")

(***************************************************************************)
(* io::Result<Option<Value>>                                               *)
(***************************************************************************)
OkSome(v)      == [tag |-> "OkSome", value |-> v,     kind |-> "",   msg |-> <<>>]
OkNone         == [tag |-> "OkNone", value |-> JNull, kind |-> "",   msg |-> <<>>]
Err(kind, msg) == [tag |-> "Err",    value |-> JNull, kind |-> kind, msg |-> msg]

(***************************************************************************)
(* std::process::ExitStatus and Output                                     *)
(***************************************************************************)
\* exited with a code, or ended by a signal (no code)
Exited(c) == [exited |-> TRUE,  code |-> c]
Signaled  == [exited |-> FALSE, code |-> 0 - 1]

Statuses == {Exited(c) : c \in 0..MaxExitCode} \cup {Signaled}

\* ExitStatus::success
StatusSuccess(st) == st.exited /\ st.code = 0

\* ExitStatus::code() == Some(c)
StatusCodeIs(st, c) == st.exited /\ st.code = c

RECURSIVE NatToChars(_)
NatToChars(n) ==
    LET d == n % 10
        c == CHOOSE x \in Digits : DigitVal(x) = d
    IN  IF n < 10 THEN <<c>> ELSE Append(NatToChars(n \div 10), c)

\* status.code().map(ToString::to_string).unwrap_or_else(|| "--")
StatusCodeText(st) == IF st.exited THEN NatToChars(st.code) ELSE <<"-", "-">>

(***************************************************************************)
(* Captured texts                                                          *)
(***************************************************************************)
Cores == { <<>>,
           <<"0">>, <<"1">>, <<"0", ".", "0">>,
           <<"n", "u", "l", "l">>, <<"f", "a", "l", "s", "e">>,
           <<"\"", "\"">>, <<"\"", "a", "\"">>, <<"[", "]">>,
           <<"?">> }

\* the cores that also come surrounded by whitespace
PadCores == { <<>>, <<"0">>, <<"n", "u", "l", "l">> }

RECURSIVE Rep(_, _)
Rep(c, n) == IF n = 0 THEN <<>> ELSE <<c>> \o Rep(c, n - 1)

Texts == Cores \cup { Rep(" ", k) \o c \o Rep("\n", k) : c \in PadCores, k \in 1..MaxPad }

\* what running `sh -c full_cmd` can give: sh not started, or an Output
NoOutput == [started |-> FALSE, status |-> Signaled, stdout |-> <<>>, stderr |-> <<>>]

Outputs == {NoOutput} \cup
           [started : {TRUE}, status : Statuses, stdout : Texts, stderr : Texts]

(***************************************************************************)
(* VimVar::load_with_config                                                *)
(***************************************************************************)
Configs == { <<>>, <<"tmp", "vimrc">> }

\* a slip: neovim always given -u, also with the empty path
FullCmdAlwaysConfig(self, config) ==
    LET cmd   == CmdAsStr(self.cmd)
        scope == ScopeAsStr(self.scope)
        var   == self.name
    IN  IF self.cmd = "Neovim"
        THEN <<cmd, " --headless -u \"", config, "\" '+echon json_encode(get(",
               scope, ", \"", var, "\"))' '+qa!'">>
        ELSE <<cmd, " -Es -u \"", config, "\" '+redir => m | echon json_encode(get(",
               scope, ", \"", var, "\")) | redir END | put=m' '+%p' '+qa!'">>

\* the format! templates, as the sequence of their literal pieces and arguments
FullCmd(self, config) ==
    LET cmd   == CmdAsStr(self.cmd)
        scope == ScopeAsStr(self.scope)
        var   == self.name
    IN  CASE self.cmd = "Neovim" /\ config = <<>> ->
               <<cmd, " --headless '+echon json_encode(get(", scope, ", \"", var,
                 "\"))' '+qa!'">>
          [] self.cmd = "Neovim" /\ config # <<>> ->
               <<cmd, " --headless -u \"", config, "\" '+echon json_encode(get(",
                 scope, ", \"", var, "\"))' '+qa!'">>
          [] self.cmd = "Vim" ->
               <<cmd, " -Es -u \"", config, "\" '+redir => m | echon json_encode(get(",
                 scope, ", \"", var, "\")) | redir END | put=m' '+%p' '+qa!'">>

\* a slip: the config requirement of vim forgotten
ConfigMissingNever(self, config) == FALSE

\* vim needs a config: the early return of the Cmd::Vim arm
ConfigMissing(self, config) == self.cmd = "Vim" /\ config = <<>>

\* a slip: exit code 1 let through for either editor
StatusRejectedAnyEditor(cmd, st) ==
    ~StatusSuccess(st) /\ ~StatusCodeIs(st, 1)

\* the condition under which the finished process is reported as a failure
StatusRejected(cmd, st) ==
    ~StatusSuccess(st) /\ (~StatusCodeIs(st, 1) \/ cmd # "Vim")

ProcessFailure(out) ==
    Err("Other", <<"[Exit code ">> \o StatusCodeText(out.status) \o <<"]: ">>
                 \o Trim(out.stderr))

\* a slip: standard output read for either editor
OutputStringStdout(cmd, out) == out.stdout

\* neovim --headless prints on stderr, vim's redir/put/%p on stdout
OutputString(cmd, out) == IF cmd = "Vim" THEN out.stdout ELSE out.stderr

EmptyResult(cmd) == Err("InvalidData", <<"Result from ", CmdAsStr(cmd), " was empty">>)

\* Display of serde_json::Error, character by character: the error code and
\* the position (the malformed texts of the model fail at their first character)
ErrorText(err) ==
    CASE err = "expected value" ->
           <<
        "e", "x", "p", "e", "c", "t", "e", "d", " ", "v", "a", "l", "u", "e",
        " ", "a", "t", " ", "l", "i", "n", "e", " ", "1", " ", "c", "o", "l",
        "u", "m", "n", " ", "1" >>
      [] err = "invalid number" ->
           <<
        "i", "n", "v", "a", "l", "i", "d", " ", "n", "u", "m", "b", "e", "r",
        " ", "a", "t", " ", "l", "i", "n", "e", " ", "1", " ", "c", "o", "l",
        "u", "m", "n", " ", "1" >>
      [] err = "EOF while parsing a value" ->
           <<
        "E", "O", "F", " ", "w", "h", "i", "l", "e", " ", "p", "a", "r", "s",
        "i", "n", "g", " ", "a", " ", "v", "a", "l", "u", "e", " ", "a", "t",
        " ", "l", "i", "n", "e", " ", "1", " ", "c", "o", "l", "u", "m", "n",
        " ", "0" >>

\* io::Error::from(serde_json::Error)
JsonIoError(err) ==
    Err(IF err = "EOF while parsing a value" THEN "UnexpectedEof" ELSE "InvalidData",
        ErrorText(err))

\* a slip: every falsy value (0, 0.0, false, null, "", []) taken for absence
ApplyAllowZeroFalsy(value, allow_zero) ==
    IF ~allow_zero /\ value.n = 0 /\ value.s = <<>> THEN OkNone ELSE OkSome(value)

\* the zero-is-absent convention
ApplyAllowZero(value, allow_zero) ==
    IF ~allow_zero /\ value = JsonZero THEN OkNone ELSE OkSome(value)

\* a slip: the emptiness test made on the untrimmed text
DecodeOutputUntrimmed(cmd, out, allow_zero) ==
    LET output_string == OutputString(cmd, out)
        parsed        == FromStr(Trim(output_string))
    IN  IF output_string = <<>> THEN EmptyResult(cmd)
        ELSE IF ~parsed.ok THEN JsonIoError(parsed.err)
        ELSE ApplyAllowZero(parsed.value, allow_zero)

\* lines after the exit status was accepted
DecodeOutput(cmd, out, allow_zero) ==
    LET output_string == OutputString(cmd, out)
        parsed        == FromStr(Trim(output_string))
    IN  IF Trim(output_string) = <<>> THEN EmptyResult(cmd)
        ELSE IF ~parsed.ok THEN JsonIoError(parsed.err)
        ELSE ApplyAllowZero(parsed.value, allow_zero)

\* a child process as the caller leaves it
Child(prog, reaped, drained) == [prog |-> prog, reaped |-> reaped, drained |-> drained]

\* the outcome of one call: its result, the command line built, how many
\* times `sh -c full_cmd` was run, and the children that were started
Outcome(result, full_cmd, attempts, children) ==
    [result |-> result, full_cmd |-> full_cmd, attempts |-> attempts,
     children |-> children]

\* a slip: the child spawned and left, its pipes unread and its status not collected
OutputChildrenUnwaited(out) ==
    IF out.started THEN <<Child("sh", FALSE, FALSE)>> ELSE <<>>

\* Command::output: spawns, reads both pipes to end of file and waits
OutputChildren(out) ==
    IF out.started THEN <<Child("sh", TRUE, TRUE)>> ELSE <<>>

\* a slip: the command run a second time after a process failure
LoadWithConfigRetrying(self, config, allow_zero, out) ==
    IF ConfigMissing(self, config)
    THEN Outcome(Err("InvalidInput", <<"path to vimrc is required for vim">>),
                 <<>>, 0, <<>>)
    ELSE LET full_cmd == FullCmd(self, config)
             children == OutputChildren(out)
         IN  IF ~out.started
             THEN Outcome(Err("NotFound", <<"sh">>), full_cmd, 1, children)
             ELSE IF StatusRejected(self.cmd, out.status)
             THEN Outcome(ProcessFailure(out), full_cmd, 2, children \o children)
             ELSE Outcome(DecodeOutput(self.cmd, out, allow_zero), full_cmd, 1, children)

LoadWithConfig(self, config, allow_zero, out) ==
    IF ConfigMissing(self, config)
    THEN Outcome(Err("InvalidInput", <<"path to vimrc is required for vim">>),
                 <<>>, 0, <<>>)
    ELSE LET full_cmd == FullCmd(self, config)
             children == OutputChildren(out)
         IN  IF ~out.started
             THEN Outcome(Err("NotFound", <<"sh">>), full_cmd, 1, children)
             ELSE IF StatusRejected(self.cmd, out.status)
             THEN Outcome(ProcessFailure(out), full_cmd, 1, children)
             ELSE Outcome(DecodeOutput(self.cmd, out, allow_zero), full_cmd, 1, children)

(***************************************************************************)
(* utils::has_on_path, has_nvim_on_path, has_vim_on_path, find_cmd         *)
(***************************************************************************)
\* what Command::new(cmd).arg("--help")...spawn() can give for a binary:
\* Ok(child), Err of kind NotFound, Err of another kind (permission denied, ...)
SpawnResults == {"spawned", "not_found", "other_error"}

\* for each binary, what spawning it gives
SearchPaths == [nvim : SpawnResults, vim : SpawnResults]

\* !matches!(spawn(), Err(x) if x.kind() == io::ErrorKind::NotFound)
HasOnPath(spawned) == spawned # "not_found"

\* the Child of a probe is dropped: neither killed nor waited on
ProbeChildren(prog, spawned) ==
    IF spawned = "spawned" THEN <<Child(prog, FALSE, TRUE)>> ELSE <<>>

HasNvimOnPath(path) == HasOnPath(path.nvim)

HasVimOnPath(path) == HasOnPath(path.vim)

\* io::Result<Cmd>
OkCmd(cmd) == [tag |-> "Ok", value |-> cmd, kind |-> "", msg |-> <<>>]
ErrCmd(kind, msg) == [tag |-> "Err", value |-> "", kind |-> kind, msg |-> msg]

\* the outcome of a probe or of find_cmd: result, binaries probed in order, children
Probed(result, probes, children) ==
    [result |-> result, probes |-> probes, children |-> children]

FindCmd(path) ==
    IF HasNvimOnPath(path)
    THEN Probed(OkCmd("Neovim"), <<"nvim">>, ProbeChildren("nvim", path.nvim))
    ELSE IF HasVimOnPath(path)
    THEN Probed(OkCmd("Vim"), <<"nvim", "vim">>,
                ProbeChildren("nvim", path.nvim) \o ProbeChildren("vim", path.vim))
    ELSE Probed(ErrCmd("NotFound", <<"No vim or neovim instance found in path">>),
                <<"nvim", "vim">>,
                ProbeChildren("nvim", path.nvim) \o ProbeChildren("vim", path.vim))

(***************************************************************************)
(* find_vimrc: utils::find_vimrc (the public one, used by load) and        *)
(* search::find_vimrc_impl (with an injected FindVimrcConfig)              *)
(***************************************************************************)
Platforms == {"unix", "windows", "other"}

HomeDir == <<"home">>
VimDir  == <<"vim">>
\* values of $XDG_CONFIG_HOME when set; the second one is ~/.config itself
XdgDirs == { <<"xdg">>, <<"home", ".config">> }

\* Result<Cow<str>, LookupError>: the variable set to a directory, or unset
EnvSet(dir) == [set |-> TRUE,  dir |-> dir]
EnvUnset    == [set |-> FALSE, dir |-> <<>>]

\* Option<PathBuf>
SomePath(p) == [some |-> TRUE,  path |-> p]
NoPath      == [some |-> FALSE, path |-> <<>>]

\* result.map(|dir| [dir, components...].iter().collect::<PathBuf>()).ok()
EnvPath(var, components) == IF var.set THEN SomePath(var.dir \o components) ELSE NoPath

\* a slip: ~/.vimrc tried before the neovim files of ~/.config
UnixCandidatesVimrcFirst(xdg_config_home, home) ==
    << EnvPath(xdg_config_home, <<"nvim", "init.lua">>),
       EnvPath(xdg_config_home, <<"nvim", "init.vim">>),
       SomePath(home \o <<".vimrc">>),
       SomePath(home \o <<".config", "nvim", "init.lua">>),
       SomePath(home \o <<".config", "nvim", "init.vim">>),
       SomePath(home \o <<".vim", "vimrc">>) >>

UnixCandidates(xdg_config_home, home) ==
    << EnvPath(xdg_config_home, <<"nvim", "init.lua">>),
       EnvPath(xdg_config_home, <<"nvim", "init.vim">>),
       SomePath(home \o <<".config", "nvim", "init.lua">>),
       SomePath(home \o <<".config", "nvim", "init.vim">>),
       SomePath(home \o <<".vimrc">>),
       SomePath(home \o <<".vim", "vimrc">>) >>

WindowsCandidates(xdg_config_home, home, vim_env) ==
    << EnvPath(xdg_config_home, <<"nvim", "init.lua">>),
       EnvPath(xdg_config_home, <<"nvim", "init.vim">>),
       SomePath(home \o <<"AppData", "Local", "nvim", "init.lua">>),
       SomePath(home \o <<"AppData", "Local", "nvim", "init.vim">>),
       SomePath(home \o <<"_vimrc">>),
       SomePath(home \o <<"vimfiles", "vimrc">>),
       EnvPath(vim_env, <<"_vimrc">>) >>

OtherCandidates(xdg_config_home) ==
    << EnvPath(xdg_config_home, <<"nvim", "init.lua">>),
       EnvPath(xdg_config_home, <<"nvim", "init.vim">>) >>

\* a slip: the search given up at the first candidate whose variable is unset
FindMapUntilNone(candidates, fs) ==
    LET hits == {i \in 1..Len(candidates) :
                    /\ candidates[i].path \in fs
                    /\ \A j \in 1..i : candidates[j].some}
    IN  IF hits = {} THEN NoPath
        ELSE candidates[CHOOSE i \in hits : \A j \in hits : i <= j]

\* .into_iter().find_map(|p| match p { Some(path) if path.exists() => Some(path), _ => None })
FindMap(candidates, fs) ==
    LET hits == {i \in 1..Len(candidates) :
                    candidates[i].some /\ candidates[i].path \in fs}
    IN  IF hits = {} THEN NoPath
        ELSE candidates[CHOOSE i \in hits : \A j \in hits : i <= j]

\* utils::find_vimrc
FindVimrc(env) ==
    IF env.platform = "unix"
    THEN FindMap(UnixCandidates(env.xdg, env.home), env.fs)
    ELSE IF env.platform = "windows"
    THEN FindMap(WindowsCandidates(env.xdg, env.home, env.vim), env.fs)
    ELSE NoPath

\* search::find_vimrc_impl
FindVimrcImpl(env) ==
    IF env.platform = "unix"
    THEN FindMap(UnixCandidates(env.xdg, env.home), env.fs)
    ELSE IF env.platform = "windows"
    THEN FindMap(WindowsCandidates(env.xdg, env.home, env.vim), env.fs)
    ELSE FindMap(OtherCandidates(env.xdg), env.fs)

\* the files whose existence a platform's search can depend on
RECURSIVE PathsOf(_)
PathsOf(candidates) ==
    IF candidates = <<>> THEN {}
    ELSE (IF Head(candidates).some THEN {Head(candidates).path} ELSE {})
         \cup PathsOf(Tail(candidates))

FilesOf(platform) ==
    UNION { IF platform = "windows"
            THEN PathsOf(WindowsCandidates(EnvSet(x), HomeDir, EnvSet(VimDir)))
            ELSE PathsOf(UnixCandidates(EnvSet(x), HomeDir)) : x \in XdgDirs }

XdgValues == {EnvUnset} \cup {EnvSet(x) : x \in XdgDirs}

VimValues(platform) ==
    IF platform = "windows" THEN {EnvUnset, EnvSet(VimDir)} ELSE {EnvUnset}

Env(platform, xdg, vim, fs) ==
    [platform |-> platform, xdg |-> xdg, home |-> HomeDir, vim |-> vim, fs |-> fs]

\* the environments: platform, variables, and the set of files that exist
Envs == UNION { { Env(p, x, v, fs) : x \in XdgValues, v \in VimValues(p),
                                       fs \in SUBSET FilesOf(p) } : p \in Platforms }

(***************************************************************************)
(* VimVar::load, load_typed, load_typed_with_config                        *)
(***************************************************************************)
\* the requested types T of the typed loads
Types == {"usize", "String"}

\* a value of type T
Typed(ty, n, s) == [t |-> ty, n |-> n, s |-> s]

\* serde_json::from_value::<T>
FromValue(ty, value) ==
    IF ty = "usize" /\ value.t = "int" /\ value.n >= 0
    THEN ParseOk(Typed(ty, value.n, <<>>))
    ELSE IF ty = "String" /\ value.t = "string"
    THEN ParseOk(Typed(ty, 0, value.s))
    ELSE ParseErr("invalid type")

\* io::Error::from(serde_json::Error) of a conversion
ConversionError(ty, value, err) == Err("InvalidData", <<err, value.t, "expected", ty>>)

\* a slip: a value of the wrong type taken for absence instead of an error
ConvertLoadedLenient(loaded, ty) ==
    IF loaded.tag = "Err" THEN loaded
    ELSE IF loaded.tag = "OkNone" THEN OkNone
    ELSE LET converted == FromValue(ty, loaded.value) IN
         IF converted.ok THEN OkSome(converted.value) ELSE OkNone

\* loaded?.map(|value| serde_json::from_value(value).map_err(Into::into)).transpose()
ConvertLoaded(loaded, ty) ==
    IF loaded.tag = "Err" THEN loaded
    ELSE IF loaded.tag = "OkNone" THEN OkNone
    ELSE LET converted == FromValue(ty, loaded.value) IN
         IF converted.ok THEN OkSome(converted.value)
         ELSE ConversionError(ty, loaded.value, converted.err)

LoadTypedWithConfig(self, config, allow_zero, out, ty) ==
    LET loaded == LoadWithConfig(self, config, allow_zero, out)
    IN  [loaded EXCEPT !.result = ConvertLoaded(loaded.result, ty)]

\* an outcome of load, with the number of calls of find_vimrc it made
Searched(outcome, searches) ==
    [result |-> outcome.result, full_cmd |-> outcome.full_cmd,
     attempts |-> outcome.attempts, children |-> outcome.children,
     searches |-> searches]

\* a slip: the startup file looked up, and required, for neovim as well
LoadAlwaysSearches(self, allow_zero, env, out) ==
    LET vimrc == FindVimrc(env) IN
    IF ~vimrc.some
    THEN Searched(Outcome(Err("NotFound", <<"vimrc not found">>), <<>>, 0, <<>>), 1)
    ELSE Searched(LoadWithConfig(self, vimrc.path, allow_zero, out), 1)

Load(self, allow_zero, env, out) ==
    IF self.cmd = "Neovim"
    THEN Searched(LoadWithConfig(self, <<>>, allow_zero, out), 0)
    ELSE LET vimrc == FindVimrc(env) IN
         IF ~vimrc.some
         THEN Searched(Outcome(Err("NotFound", <<"vimrc not found">>), <<>>, 0, <<>>), 1)
         ELSE Searched(LoadWithConfig(self, vimrc.path, allow_zero, out), 1)

LoadTyped(self, allow_zero, env, out, ty) ==
    LET loaded == Load(self, allow_zero, env, out)
    IN  [loaded EXCEPT !.result = ConvertLoaded(loaded.result, ty)]

\* load runs `sh`: the environments of the loads are those of the platforms
\* that have one, with at most one startup file present
LoadEnvs == {e \in Envs : e.platform # "windows"
                          /\ \A f, g \in e.fs : f = g}

\* the outputs given to load and load_typed: at most one stream carries text
LoadOutputs == {o \in Outputs : o.stdout = <<>> \/ o.stderr = <<>>}

(***************************************************************************)
(* State machine: a caller makes one call at a time and takes its outcome. *)
(***************************************************************************)
Idle == [op |-> "none"]

Init ==
    /\ pc = "idle"
    /\ call = Idle
    /\ ret = Idle

CallLoadWithConfig ==
    /\ pc = "idle"
    /\ \E self \in VimVars, config \in Configs, allow_zero \in BOOLEAN, out \in Outputs :
         /\ call' = [op |-> "load_with_config", self |-> self, config |-> config,
                     allow_zero |-> allow_zero, out |-> out]
         /\ ret' = LoadWithConfig(self, config, allow_zero, out)
    /\ pc' = "returned"

\* the caller takes the outcome and is ready for the next call
Return ==
    /\ pc = "returned"
    /\ pc' = "idle"
    /\ call' = Idle
    /\ ret' = Idle

CallLoadTypedWithConfig ==
    /\ pc = "idle"
    /\ \E self \in VimVars, config \in Configs, allow_zero \in BOOLEAN, out \in Outputs,
          ty \in Types :
         /\ call' = [op |-> "load_typed_with_config", self |-> self, config |-> config,
                     allow_zero |-> allow_zero, out |-> out, ty |-> ty]
         /\ ret' = LoadTypedWithConfig(self, config, allow_zero, out, ty)
    /\ pc' = "returned"

CallLoad ==
    /\ pc = "idle"
    /\ \E self \in VimVars, allow_zero \in BOOLEAN, env \in LoadEnvs, out \in LoadOutputs :
         /\ call' = [op |-> "load", self |-> self, allow_zero |-> allow_zero,
                     env |-> env, out |-> out]
         /\ ret' = Load(self, allow_zero, env, out)
    /\ pc' = "returned"

CallLoadTyped ==
    /\ pc = "idle"
    /\ \E self \in VimVars, allow_zero \in BOOLEAN, env \in LoadEnvs, out \in LoadOutputs,
          ty \in Types :
         /\ call' = [op |-> "load_typed", self |-> self, allow_zero |-> allow_zero,
                     env |-> env, out |-> out, ty |-> ty]
         /\ ret' = LoadTyped(self, allow_zero, env, out, ty)
    /\ pc' = "returned"

CallScopeAsStr ==
    /\ pc = "idle"
    /\ \E scope \in Scopes :
         /\ call' = [op |-> "scope_as_str", scope |-> scope]
         /\ ret' = [result |-> ScopeAsStr(scope)]
    /\ pc' = "returned"

CallScopeDefault ==
    /\ pc = "idle"
    /\ call' = [op |-> "scope_default"]
    /\ ret' = [result |-> ScopeDefault]
    /\ pc' = "returned"

CallHasOnPath ==
    /\ pc = "idle"
    /\ \E prog \in {"nvim", "vim"}, path \in SearchPaths :
         /\ call' = [op |-> "has_on_path", prog |-> prog, path |-> path]
         /\ ret' = Probed(IF prog = "nvim" THEN HasNvimOnPath(path) ELSE HasVimOnPath(path),
                          <<prog>>, ProbeChildren(prog, path[prog]))
    /\ pc' = "returned"

CallFindCmd ==
    /\ pc = "idle"
    /\ \E path \in SearchPaths :
         /\ call' = [op |-> "find_cmd", path |-> path]
         /\ ret' = FindCmd(path)
    /\ pc' = "returned"

CallFindVimrc ==
    /\ pc = "idle"
    /\ \E env \in Envs :
         /\ call' = [op |-> "find_vimrc", env |-> env]
         /\ ret' = [result |-> FindVimrc(env)]
    /\ pc' = "returned"

CallFindVimrcImpl ==
    /\ pc = "idle"
    /\ \E env \in Envs :
         /\ call' = [op |-> "find_vimrc_impl", env |-> env]
         /\ ret' = [result |-> FindVimrcImpl(env)]
    /\ pc' = "returned"

Next ==
    \/ CallLoadWithConfig
    \/ CallLoadTypedWithConfig
    \/ CallLoad
    \/ CallLoadTyped
    \/ CallScopeAsStr
    \/ CallScopeDefault
    \/ CallHasOnPath
    \/ CallFindCmd
    \/ CallFindVimrc
    \/ CallFindVimrcImpl
    \/ Return

Spec == Init /\ [][Next]_vars

(***************************************************************************)
(* Properties                                                              *)
(***************************************************************************)
Returned(ops) == pc = "returned" /\ call.op \in ops

\* the editor process of the call ran to its end
Finished == call.out.started /\ ~(call.self.cmd = "Vim" /\ call.config = <<>>)

\* exit 0, or exit 1 of vim
Accepted ==
    /\ Finished
    /\ call.out.status.exited
    /\ \/ call.out.status.code = 0
       \/ call.out.status.code = 1 /\ call.self.cmd = "Vim"

\* the stream the value is read from
Selected == IF call.self.cmd = "Vim" THEN call.out.stdout ELSE call.out.stderr

\* C1: when load_with_config has parsed a JSON value v from the selected
\* output, the result is Ok(None) exactly if allow_zero is false and v is the
\* integer 0, and Ok(Some(v)) with v unchanged in every other case.
C1_ZeroAloneIsAbsent ==
    (Returned({"load_with_config"}) /\ Accepted /\ FromStr(Trim(Selected)).ok) =>
        LET v == FromStr(Trim(Selected)).value IN
        /\ ret.result.tag \in {"OkNone", "OkSome"}
        /\ ret.result.tag = "OkNone" <=> (~call.allow_zero /\ v.t = "int" /\ v.n = 0)
        /\ ret.result.tag = "OkSome" => ret.result.value = v

C1_Witness ==
    /\ Returned({"load_with_config"}) /\ Accepted
    /\ ~call.allow_zero
    /\ Selected = <<" ", "0", "\n">>
    /\ ret.result = OkNone

\* C2: once the editor process has finished, load_with_config returns the
\* process-failure error exactly if the exit status is not success and is not
\* exit code 1 of vim; the error carries the exit code, or "--" after a signal.
IsProcessFailure(r) ==
    r.tag = "Err" /\ r.kind = "Other" /\ Len(r.msg) >= 1 /\ r.msg[1] = "[Exit code "

C2_ProcessFailureIffRejected ==
    (Returned({"load_with_config"}) /\ Finished) =>
        LET st == call.out.status IN
        /\ IsProcessFailure(ret.result)
             <=> ~(st.exited /\ st.code = 0)
                 /\ ~(call.self.cmd = "Vim" /\ st.exited /\ st.code = 1)
        /\ IsProcessFailure(ret.result) =>
             IF st.exited
             THEN st.code < 10 => /\ ret.result.msg[2] \in Digits
                                  /\ DigitVal(ret.result.msg[2]) = st.code
                                  /\ ret.result.msg[3] = "]: "
             ELSE SubSeq(ret.result.msg, 2, 4) = <<"-", "-", "]: ">>

C2_Witness ==
    /\ Returned({"load_with_config"}) /\ Finished
    /\ call.self.cmd = "Neovim"
    /\ call.out.status = Exited(1)
    /\ IsProcessFailure(ret.result)

\* C3: when the exit status is accepted, the result of load_with_config is
\* the same whatever the stream that is not selected holds: standard error
\* for vim, standard output for neovim.
C3_OtherStreamHasNoEffect ==
    (Returned({"load_with_config"}) /\ Accepted) =>
        \A t \in Texts :
            LET other == IF call.self.cmd = "Vim"
                         THEN [call.out EXCEPT !.stderr = t]
                         ELSE [call.out EXCEPT !.stdout = t]
            IN  LoadWithConfig(call.self, call.config, call.allow_zero, other).result
                    = ret.result

C3_Witness ==
    /\ Returned({"load_with_config"}) /\ Accepted
    /\ call.self.cmd = "Neovim"
    /\ call.out.stdout = <<"?">>
    /\ call.out.stderr = <<"\"", "a", "\"">>
    /\ ret.result = OkSome(JString(<<"a">>))

\* C4: when the exit status is accepted, a selected text that is empty or only
\* whitespace gives the "Result from <editor> was empty" error whatever
\* allow_zero is, and a selected text that trims to null gives Ok(Some(null)).
C4_EmptyIsErrorNullIsValue ==
    (Returned({"load_with_config"}) /\ Accepted) =>
        /\ (\A i \in 1..Len(Selected) : Selected[i] \in {" ", "\n", "\t", "\r"}) =>
              /\ ret.result.tag = "Err"
              /\ ret.result.kind = "InvalidData"
              /\ ret.result.msg = <<"Result from ",
                                    IF call.self.cmd = "Vim" THEN "vim" ELSE "nvim",
                                    " was empty">>
        /\ Trim(Selected) = <<"n", "u", "l", "l">> => ret.result = OkSome(JNull)

C4_Witness ==
    /\ Returned({"load_with_config"}) /\ Accepted
    /\ call.allow_zero
    /\ Selected = <<" ", "\n">>
    /\ ret.result.tag = "Err" /\ ret.result.kind = "InvalidData"

\* C5: load_with_config and load_typed_with_config on a vim variable with an
\* empty configuration path return an InvalidInput error, and that call runs
\* no child process.
C5_VimWithoutConfigIsInvalidInput ==
    (Returned({"load_with_config", "load_typed_with_config"})
        /\ call.self.cmd = "Vim" /\ call.config = <<>>) =>
        /\ ret.result.tag = "Err"
        /\ ret.result.kind = "InvalidInput"
        /\ ret.attempts = 0
        /\ ret.children = <<>>

C5_Witness ==
    /\ Returned({"load_typed_with_config"})
    /\ call.self.cmd = "Vim" /\ call.config = <<>>
    /\ call.out.started
    /\ ret.result.kind = "InvalidInput"

\* the spawn attempt on a binary succeeds
Spawnable(prog) == call.path[prog] = "spawned"

\* C6: find_cmd returns Neovim whenever nvim is spawnable, Vim exactly when
\* nvim is not spawnable and vim is, and a NotFound error exactly when neither
\* is; when nvim is spawnable, vim is not probed.
C6_FindCmdPrefersNeovim ==
    Returned({"find_cmd"}) =>
        /\ Spawnable("nvim") => ret.result = OkCmd("Neovim")
        /\ ret.result = OkCmd("Vim") <=> (~Spawnable("nvim") /\ Spawnable("vim"))
        /\ (ret.result.tag = "Err" /\ ret.result.kind = "NotFound")
              <=> (~Spawnable("nvim") /\ ~Spawnable("vim"))
        /\ Spawnable("nvim") => ret.probes = <<"nvim">>

\* C7: the probe reports a binary as spawnable only when the spawn attempt
\* succeeds; a spawn failure of any kind gives "not spawnable".
C7_ProbeTrueOnlyIfSpawned ==
    Returned({"has_on_path"}) => (ret.result <=> Spawnable(call.prog))

\* the candidate order of find_vimrc on a Unix-like platform, those of an
\* unset $XDG_CONFIG_HOME left out
UnixOrder(env) ==
    (IF env.xdg.set
     THEN << env.xdg.dir \o <<"nvim", "init.lua">>, env.xdg.dir \o <<"nvim", "init.vim">> >>
     ELSE << >>)
    \o << env.home \o <<".config", "nvim", "init.lua">>,
          env.home \o <<".config", "nvim", "init.vim">>,
          env.home \o <<".vimrc">>,
          env.home \o <<".vim", "vimrc">> >>

\* `found` is the first path of `order` that exists, or absent if none does
IsFirstExisting(found, order, fs) ==
    /\ found.some <=> \E i \in 1..Len(order) : order[i] \in fs
    /\ found.some =>
         \E i \in 1..Len(order) :
            /\ order[i] \in fs
            /\ found.path = order[i]
            /\ \A j \in 1..(i - 1) : order[j] \notin fs

\* C8: on a Unix-like platform find_vimrc returns the existing candidate of
\* lowest index in the documented order, and absent exactly when none exists.
C8_UnixFirstExistingCandidate ==
    (Returned({"find_vimrc", "find_vimrc_impl"}) /\ call.env.platform = "unix") =>
        IsFirstExisting(ret.result, UnixOrder(call.env), call.env.fs)

C8_Witness ==
    /\ Returned({"find_vimrc"}) /\ call.env.platform = "unix"
    /\ call.env.xdg = EnvSet(<<"xdg">>)
    /\ call.env.fs = { <<"home", ".config", "nvim", "init.vim">>,
                       <<"home", ".vimrc">>, <<"home", ".vim", "vimrc">> }
    /\ ret.result = SomePath(<<"home", ".config", "nvim", "init.vim">>)

\* the candidate order on a platform that is neither Unix-like nor Windows-like
OtherOrder(env) ==
    IF env.xdg.set
    THEN << env.xdg.dir \o <<"nvim", "init.lua">>, env.xdg.dir \o <<"nvim", "init.vim">> >>
    ELSE << >>

\* C9: on a platform that is neither Unix-like nor Windows-like, find_vimrc
\* (utils::find_vimrc as well as find_vimrc_impl) returns the first existing of
\* $XDG_CONFIG_HOME/nvim/init.lua and $XDG_CONFIG_HOME/nvim/init.vim.
C9_OtherPlatformSearchesXdg ==
    (Returned({"find_vimrc", "find_vimrc_impl"}) /\ call.env.platform = "other") =>
        IsFirstExisting(ret.result, OtherOrder(call.env), call.env.fs)

\* the untyped lookup of a typed call
Untyped ==
    IF call.op = "load_typed"
    THEN Load(call.self, call.allow_zero, call.env, call.out).result
    ELSE LoadWithConfig(call.self, call.config, call.allow_zero, call.out).result

\* the JSON value is of the requested type
Matches(ty, v) ==
    \/ ty = "usize" /\ v.t = "int" /\ v.n >= 0
    \/ ty = "String" /\ v.t = "string"

\* C10: load_typed and load_typed_with_config return the error of the untyped
\* lookup unchanged, Ok(None) when it is absent, Ok(Some(converted)) when the
\* present value is of the requested type, and an error when it is not.
C10_TypedConvertsPresentValueOnly ==
    Returned({"load_typed", "load_typed_with_config"}) =>
        /\ Untyped.tag = "Err" => ret.result = Untyped
        /\ Untyped.tag = "OkNone" => ret.result = OkNone
        /\ (Untyped.tag = "OkSome" /\ Matches(call.ty, Untyped.value)) =>
              /\ ret.result.tag = "OkSome"
              /\ ret.result.value.t = call.ty
              /\ ret.result.value.n = Untyped.value.n
              /\ ret.result.value.s = Untyped.value.s
        /\ (Untyped.tag = "OkSome" /\ ~Matches(call.ty, Untyped.value)) =>
              ret.result.tag = "Err"

C10_Witness ==
    /\ Returned({"load_typed"})
    /\ call.self.cmd = "Vim" /\ call.ty = "usize"
    /\ call.out.stdout = <<"\"", "a", "\"">>
    /\ Untyped = OkSome(JString(<<"a">>))
    /\ ret.result.tag = "Err" /\ ret.result.kind = "InvalidData"

\* C11: for vim with a non-empty configuration path the command line built is
\* vim -Es -i NONE -u "<config>" '+set nonumber' '+redir => m | echon
\* json_encode(get(<scope>, "<name>")) | redir END | put=m' '+%p' '+qa!'
C11_VimCommandLine ==
    (Returned({"load_with_config"}) /\ call.self.cmd = "Vim" /\ call.config # <<>>) =>
        ret.full_cmd =
            <<"vim", " -Es -i NONE -u \"", call.config,
              "\" '+set nonumber' '+redir => m | echon json_encode(get(",
              ScopeAsStr(call.self.scope), ", \"", call.self.name,
              "\")) | redir END | put=m' '+%p' '+qa!'">>

\* the two neovim command lines
NvimPlain ==
    <<"nvim", " --headless '+echon json_encode(get(", ScopeAsStr(call.self.scope),
      ", \"", call.self.name, "\"))' '+qa!'">>

NvimWithConfig ==
    <<"nvim", " --headless -u \"", call.config, "\" '+echon json_encode(get(",
      ScopeAsStr(call.self.scope), ", \"", call.self.name, "\"))' '+qa!'">>

\* C12: for neovim the command line is nvim --headless '+echon
\* json_encode(get(<scope>, "<name>"))' '+qa!' exactly when the configuration
\* path is empty, the same with -u "<config>" after --headless exactly when it
\* is not, and the empty path is never an error.
C12_NeovimCommandLine ==
    (Returned({"load_with_config"}) /\ call.self.cmd = "Neovim") =>
        /\ ret.full_cmd = NvimPlain <=> call.config = <<>>
        /\ ret.full_cmd = NvimWithConfig <=> call.config # <<>>
        /\ ret.result.kind # "InvalidInput"
        /\ ret.attempts = 1

C12_Witness ==
    /\ Returned({"load_with_config"}) /\ call.self.cmd = "Neovim"
    /\ call.self.scope = "Buffer"
    /\ call.config = <<>>
    /\ ret.full_cmd = <<"nvim", " --headless '+echon json_encode(get(", "b:",
                        ", \"", "my_var", "\"))' '+qa!'">>
    /\ ret.result.tag = "OkSome"

\* the outcome of load is that of load_with_config with the given path
SameAsWithConfig(config) ==
    LET with == LoadWithConfig(call.self, config, call.allow_zero, call.out) IN
    /\ ret.result = with.result
    /\ ret.full_cmd = with.full_cmd
    /\ ret.attempts = with.attempts
    /\ ret.children = with.children

\* C13: load never searches a startup file for neovim and runs it with no
\* configuration path; for vim it uses the path find_vimrc returns, and
\* returns a NotFound error without running any process when that is absent.
C13_LoadChoosesConfigByEditor ==
    Returned({"load"}) =>
        /\ call.self.cmd = "Neovim" =>
              /\ ret.searches = 0
              /\ SameAsWithConfig(<<>>)
              /\ ret.full_cmd = NvimPlain
        /\ (call.self.cmd = "Vim" /\ FindVimrc(call.env).some) =>
              /\ SameAsWithConfig(FindVimrc(call.env).path)
              /\ ret.full_cmd[3] = FindVimrc(call.env).path
        /\ (call.self.cmd = "Vim" /\ ~FindVimrc(call.env).some) =>
              /\ ret.result.tag = "Err"
              /\ ret.result.kind = "NotFound"
              /\ ret.attempts = 0
              /\ ret.children = <<>>

C13_Witness ==
    /\ Returned({"load"}) /\ call.self.cmd = "Vim"
    /\ call.env.platform = "unix"
    /\ call.env.fs = {}
    /\ call.out.started
    /\ ret.result = Err("NotFound", <<"vimrc not found">>)
    /\ ret.attempts = 0

Letters == {"a", "b", "c", "d", "e", "f", "g", "h", "i", "j", "k", "l", "m",
            "n", "o", "p", "q", "r", "s", "t", "u", "v", "w", "x", "y", "z"}

\* C14: Scope::as_str gives no two scopes the same prefix, a prefix is empty
\* (for Nothing alone) or one letter followed by ':', and the default scope is
\* Global, whose prefix is "g:".
C14_ScopePrefixes ==
    /\ Returned({"scope_as_str"}) =>
          /\ \A other \in Scopes \ {call.scope} : ScopeAsStr(other) # ret.result
          /\ ret.result = "" <=> call.scope = "Nothing"
          /\ ret.result # "" => ret.result \in {c \o ":" : c \in Letters}
    /\ Returned({"scope_default"}) =>
          /\ ret.result = "Global"
          /\ ScopeAsStr(ret.result) = "g:"

C14_Witness ==
    /\ Returned({"scope_as_str"})
    /\ call.scope = "Script"
    /\ ret.result = "s:"

\* `text` occurs in `msg`, character by character
Includes(msg, text) ==
    \E i \in 1..(Len(msg) - Len(text) + 1) : SubSeq(msg, i, i + Len(text) - 1) = text

\* C15: when the exit status is accepted and the trimmed selected text is not
\* empty and not a JSON value, load_with_config returns a malformed-output
\* error whose message includes that text.
C15_MalformedErrorNamesText ==
    (Returned({"load_with_config"}) /\ Accepted
        /\ Trim(Selected) # <<>> /\ ~FromStr(Trim(Selected)).ok) =>
        /\ ret.result.tag = "Err"
        /\ ret.result.kind = "InvalidData"
        /\ Includes(ret.result.msg, Trim(Selected))

\* the candidate order on a Windows-like platform, those of unset variables
\* left out
WindowsOrder(env) ==
    (IF env.xdg.set
     THEN << env.xdg.dir \o <<"nvim", "init.lua">>, env.xdg.dir \o <<"nvim", "init.vim">> >>
     ELSE << >>)
    \o << env.home \o <<"AppData", "Local", "nvim", "init.lua">>,
          env.home \o <<"AppData", "Local", "nvim", "init.vim">>,
          env.home \o <<"_vimrc">>,
          env.home \o <<"vimfiles", "vimrc">> >>
    \o (IF env.vim.set THEN << env.vim.dir \o <<"_vimrc">> >> ELSE << >>)

\* C16: an unset variable drops only the candidates built from it: with
\* $XDG_CONFIG_HOME unset on Unix the result is the first existing of
\* ~/.config/nvim/init.lua, ~/.config/nvim/init.vim, ~/.vimrc, ~/.vim/vimrc;
\* with $VIM or $XDG_CONFIG_HOME unset on Windows the other candidates are
\* still searched in order; a search that finds a file is never made absent.
C16_UnsetVariableDropsItsCandidatesOnly ==
    Returned({"find_vimrc", "find_vimrc_impl"}) =>
        /\ (call.env.platform = "unix" /\ ~call.env.xdg.set) =>
              IsFirstExisting(ret.result,
                              << <<"home", ".config", "nvim", "init.lua">>,
                                 <<"home", ".config", "nvim", "init.vim">>,
                                 <<"home", ".vimrc">>,
                                 <<"home", ".vim", "vimrc">> >>,
                              call.env.fs)
        /\ (call.env.platform = "windows" /\ (~call.env.vim.set \/ ~call.env.xdg.set)) =>
              IsFirstExisting(ret.result, WindowsOrder(call.env), call.env.fs)

C16_Witness ==
    /\ Returned({"find_vimrc"}) /\ call.env.platform = "windows"
    /\ call.env.xdg.set /\ ~call.env.vim.set
    /\ call.env.fs = { <<"home", "vimfiles", "vimrc">>, <<"vim", "_vimrc">> }
    /\ ret.result = SomePath(<<"home", "vimfiles", "vimrc">>)

\* C17: every process started by the probe has been terminated or waited on
\* when the probe (has_on_path, find_cmd) returns.
C17_ProbeChildrenReaped ==
    Returned({"has_on_path", "find_cmd"}) =>
        \A i \in 1..Len(ret.children) : ret.children[i].reaped

\* C18: on every return of load_with_config after the process was spawned
\* (process failure, empty result, malformed output, absence, value), the
\* child's output was read to end of file and its exit status collected.
C18_ChildDrainedAndReaped ==
    (Returned({"load_with_config"}) /\ Finished) =>
        /\ Len(ret.children) = 1
        /\ \A i \in 1..Len(ret.children) :
              ret.children[i].drained /\ ret.children[i].reaped

C18_Witness ==
    /\ Returned({"load_with_config"}) /\ Finished
    /\ call.out.status = Signaled
    /\ IsProcessFailure(ret.result)
    /\ ret.children = <<Child("sh", TRUE, TRUE)>>

\* C19: a call of load_with_config is one attempt: it runs the command at
\* most once, also after a process failure, an empty result or malformed
\* output, starts at most one process, and returns one outcome: a value,
\* absence or an error.
C19_SingleAttempt ==
    Returned({"load_with_config"}) =>
        /\ ret.attempts <= 1
        /\ Len(ret.children) <= 1
        /\ ret.result.tag \in {"OkSome", "OkNone", "Err"}
        /\ (ret.result.tag = "Err" /\ ret.result.kind # "InvalidInput") => ret.attempts = 1
        /\ ret.result.tag # "Err" => ret.attempts = 1 /\ Len(ret.children) = 1

C19_Witness ==
    /\ Returned({"load_with_config"}) /\ Finished
    /\ call.out.status = Exited(2)
    /\ IsProcessFailure(ret.result)
    /\ ret.attempts = 1

====
